---- MODULE Spec2Model ----
(***************************************************************************)
(* Model of TestPlanGenerator (src/testplan_generator.py): the group-chat  *)
(* pipeline generate_test_plan, the delimiter extractor                    *)
(* _extract_test_plan_content, the line parser                             *)
(* _emergency_test_plan_processing and the writer _save_test_plan_to_file. *)
(*                                                                         *)
(* Text is a sequence of tokens.  A token is a string of one or more       *)
(* characters that the code never looks inside: every colon, blank,        *)
(* newline, dash, dot and digit the code tests is a token of its own, and  *)
(* the literals of the code ("TEST PLAN:", "END OF TEST PLAN",             *)
(* "Test Case <digits>", "Objective:" ...) are sequences of tokens, so     *)
(* that "END OF TEST PLAN" followed by ":" holds "TEST PLAN:" exactly as   *)
(* the characters do.  Indices are Python's (0-based, -1 for not found).   *)
(***************************************************************************)
EXTENDS Integers, Sequences, FiniteSets, TLC

\* ------------------------------------------------------------------ bounds
\* longest input of the extractor, in symbols of ExtractSymbols
MaxExtractLen == 6

\* longest input of the parser, in lines of ParseLines
MaxParseLen == 4

\* most step lines of a well-formed block
MaxSteps == 2

\* most field lines after the heading of a field block
MaxFieldLines == 3

\* ------------------------------------------------------ string primitives
Whitespace == {" ", "\n"}

DigitChars == << "0", "1", "2", "3", "4", "5", "6", "7", "8", "9" >>

Digits == { DigitChars[i] : i \in 1..10 }

DigitValue(d) == (CHOOSE i \in 1..10 : DigitChars[i] = d) - 1

\* s[a:b] for 0 <= a, 0 <= b
Slice(s, a, b) == SubSeq(s, a + 1, IF b > Len(s) THEN Len(s) ELSE b)

\* s[a:]
SliceFrom(s, a) == SubSeq(s, a + 1, Len(s))

\* pat occurs in s at 0-based index i
OccursAt(s, pat, i) ==
    /\ i >= 0
    /\ i + Len(pat) <= Len(s)
    /\ \A k \in 1..Len(pat) : s[i + k] = pat[k]

\* s.find(pat)
Find(s, pat) ==
    IF \E i \in 0..Len(s) : OccursAt(s, pat, i)
    THEN CHOOSE i \in 0..Len(s) :
            /\ OccursAt(s, pat, i)
            /\ \A j \in 0..(i - 1) : ~OccursAt(s, pat, j)
    ELSE -1

\* pat in s
Contains(s, pat) == \E i \in 0..Len(s) : OccursAt(s, pat, i)

\* s.startswith(pat)
StartsWith(s, pat) == OccursAt(s, pat, 0)

\* s.strip()
Strip(s) ==
    IF \A k \in 1..Len(s) : s[k] \in Whitespace
    THEN << >>
    ELSE LET lo == CHOOSE i \in 1..Len(s) :
                      /\ s[i] \notin Whitespace
                      /\ \A j \in 1..(i - 1) : s[j] \in Whitespace
             hi == CHOOSE i \in 1..Len(s) :
                      /\ s[i] \notin Whitespace
                      /\ \A j \in (i + 1)..Len(s) : s[j] \in Whitespace
         IN  SubSeq(s, lo, hi)

\* s.split(sep)[-1] for a separator that cannot overlap itself: the text
\* after the last occurrence of sep, the whole of s when sep does not occur
SplitLast(s, sep) ==
    IF ~Contains(s, sep)
    THEN s
    ELSE LET i == CHOOSE i \in 0..Len(s) :
                     /\ OccursAt(s, sep, i)
                     /\ \A j \in (i + 1)..Len(s) : ~OccursAt(s, sep, j)
         IN  SliceFrom(s, i + Len(sep))

RECURSIVE SplitLines(_)
\* content.split("\n")
SplitLines(s) ==
    LET i == Find(s, << "\n" >>)
    IN  IF i = -1
        THEN << s >>
        ELSE << Slice(s, 0, i) >> \o SplitLines(SliceFrom(s, i + 1))

RECURSIVE JoinLines(_)
\* "\n".join(lines)
JoinLines(lines) ==
    IF Len(lines) = 0 THEN << >>
    ELSE IF Len(lines) = 1 THEN lines[1]
    ELSE lines[1] \o << "\n" >> \o JoinLines(Tail(lines))

\* ------------------------------------------------------- program literals
StartMarker == << "TEST PLAN", ":" >>

EndMarker == << "END OF", " ", "TEST PLAN" >>

NoPlanText == << "No test plan could be extracted." >>

Placeholder == << "To be determined" >>

ObjectivePrefix == << "Objective", ":" >>

PreconditionsPrefix == << "Preconditions", ":" >>

ExpectedResultsPrefix == << "Expected Results", ":" >>

PriorityPrefix == << "Priority", ":" >>

StatusPrefix == << "Status", ":" >>

\* Python's None, where a dict is expected
None == [none |-> TRUE]

\* msg.get("content", "")
GetContent(msg) == IF "content" \in DOMAIN msg THEN msg.content ELSE << >>

\* ------------------------------------------- _extract_test_plan_content
RECURSIVE ExtractScanFirstStart(_, _)
\* a scan that gives up at the latest message holding the start marker
ExtractScanFirstStart(messages, k) ==
    IF k = 0
    THEN [test_plan |-> NoPlanText]
    ELSE LET content   == GetContent(messages[k])
             start_idx == Find(content, StartMarker)
             end_idx   == Find(content, EndMarker)
         IN  IF Contains(content, StartMarker)
             THEN IF end_idx # -1
                  THEN [test_plan |-> Strip(Slice(content, start_idx, end_idx))]
                  ELSE [test_plan |-> NoPlanText]
             ELSE ExtractScanFirstStart(messages, k - 1)

RECURSIVE ExtractScan(_, _)
\* the loop over reversed(messages), at message k (1-based), k = 0: loop over
ExtractScan(messages, k) ==
    IF k = 0
    THEN [test_plan |-> NoPlanText]
    ELSE LET content   == GetContent(messages[k])
             start_idx == Find(content, StartMarker)
             end_idx   == Find(content, EndMarker)
         IN  IF Contains(content, StartMarker) /\ start_idx # -1 /\ end_idx # -1
             THEN [test_plan |-> Strip(Slice(content, start_idx, end_idx))]
             ELSE ExtractScan(messages, k - 1)

extract_test_plan_content(messages) == ExtractScan(messages, Len(messages))

process_test_plan_results(messages) == extract_test_plan_content(messages)

\* -------------------------------------- _emergency_test_plan_processing
\* re.search(r"Test Case (\d+)", line) matches at 0-based index i
TestCaseAt(line, i) ==
    /\ OccursAt(line, << "Test Case", " " >>, i)
    /\ i + 3 <= Len(line)
    /\ line[i + 3] \in Digits

TestCaseMatch(line) == \E i \in 0..Len(line) : TestCaseAt(line, i)

RECURSIVE DigitRun(_, _)
\* the longest run of digits of s that starts at 1-based position p
DigitRun(s, p) ==
    IF p <= Len(s) /\ s[p] \in Digits
    THEN << s[p] >> \o DigitRun(s, p + 1)
    ELSE << >>

\* test_case_match.group(1)
MatchGroup1(line) ==
    LET i == CHOOSE i \in 0..Len(line) :
                 /\ TestCaseAt(line, i)
                 /\ \A j \in 0..(i - 1) : ~TestCaseAt(line, j)
    IN  DigitRun(line, i + 3)

RECURSIVE ToInt(_)
\* int(digits)
ToInt(ds) ==
    IF Len(ds) = 0 THEN 0
    ELSE 10 * ToInt(SubSeq(ds, 1, Len(ds) - 1)) + DigitValue(ds[Len(ds)])

\* line.split(":")[-1].strip() if ":" in line else f"Test Case {group(1)}"
HeadingTitle(line) ==
    IF Contains(line, << ":" >>)
    THEN Strip(SplitLast(line, << ":" >>))
    ELSE << "Test Case", " " >> \o MatchGroup1(line)

\* the dict built at lines 137-146
NewTestCase(line) ==
    [test_case_number |-> ToInt(MatchGroup1(line)),
     title            |-> HeadingTitle(line),
     objective        |-> << >>,
     preconditions    |-> << >>,
     steps            |-> << >>,
     expected_results |-> << >>,
     priority         |-> << "Medium" >>,
     status           |-> << "Draft" >>]

\* re.match(r"\d+\.", s)
NumberedMatch(s) ==
    /\ Len(s) >= 1
    /\ s[1] \in Digits
    /\ LET n == Len(DigitRun(s, 1))
       IN  n + 1 <= Len(s) /\ s[n + 1] = "."

\* line.split(prefix)[-1].strip()
FieldValue(line, prefix) == Strip(SplitLast(line, prefix))

\* a chain whose scalar fields append to the value already held
ApplyFieldsConcat(tc, line) ==
    LET s == Strip(line)
    IN  IF StartsWith(s, ObjectivePrefix)
        THEN [tc EXCEPT !.objective = @ \o FieldValue(line, ObjectivePrefix)]
        ELSE IF StartsWith(s, PreconditionsPrefix)
        THEN [tc EXCEPT !.preconditions = @ \o FieldValue(line, PreconditionsPrefix)]
        ELSE IF StartsWith(s, ExpectedResultsPrefix)
        THEN [tc EXCEPT !.expected_results = @ \o FieldValue(line, ExpectedResultsPrefix)]
        ELSE IF StartsWith(s, PriorityPrefix)
        THEN [tc EXCEPT !.priority = @ \o FieldValue(line, PriorityPrefix)]
        ELSE IF StartsWith(s, StatusPrefix)
        THEN [tc EXCEPT !.status = @ \o FieldValue(line, StatusPrefix)]
        ELSE IF StartsWith(s, << "-" >>) \/ NumberedMatch(s)
        THEN [tc EXCEPT !.steps = Append(@, s)]
        ELSE tc

\* the if/elif chain of lines 150-161 applied to the open test case tc
ApplyFields(tc, line) ==
    LET s == Strip(line)
    IN  IF StartsWith(s, ObjectivePrefix)
        THEN [tc EXCEPT !.objective = FieldValue(line, ObjectivePrefix)]
        ELSE IF StartsWith(s, PreconditionsPrefix)
        THEN [tc EXCEPT !.preconditions = FieldValue(line, PreconditionsPrefix)]
        ELSE IF StartsWith(s, ExpectedResultsPrefix)
        THEN [tc EXCEPT !.expected_results = FieldValue(line, ExpectedResultsPrefix)]
        ELSE IF StartsWith(s, PriorityPrefix)
        THEN [tc EXCEPT !.priority = FieldValue(line, PriorityPrefix)]
        ELSE IF StartsWith(s, StatusPrefix)
        THEN [tc EXCEPT !.status = FieldValue(line, StatusPrefix)]
        ELSE IF StartsWith(s, << "-" >>) \/ NumberedMatch(s)
        THEN [tc EXCEPT !.steps = Append(@, s)]
        ELSE tc

\* a heading test that forgets the "Objective:" condition
OpensCaseAnyTurn(line, content) == TestCaseMatch(line)

\* test_case_match and "Objective:" in content
OpensCase(line, content) ==
    TestCaseMatch(line) /\ Contains(content, ObjectivePrefix)

\* an iteration that forgets the open test case when a heading opens the
\* next one
ProcessLineDropsOpen(st, line, content) ==
    LET opened ==
            IF OpensCase(line, content)
            THEN [test_cases |-> st.test_cases,
                  current_test_case |-> << NewTestCase(line) >>]
            ELSE st
    IN  IF opened.current_test_case # << >>
        THEN [opened EXCEPT !.current_test_case =
                                << ApplyFields(opened.current_test_case[1], line) >>]
        ELSE opened

\* Parser state: test_cases is test_plan["test_cases"]; current_test_case is
\* << >> for None and << tc >> for an open test case.
\* One iteration of the loop over lines (lines 130-161).
ProcessLine(st, line, content) ==
    LET opened ==
            IF OpensCase(line, content)
            THEN [test_cases |->
                      IF st.current_test_case # << >>
                      THEN Append(st.test_cases, st.current_test_case[1])
                      ELSE st.test_cases,
                  current_test_case |-> << NewTestCase(line) >>]
            ELSE st
    IN  IF opened.current_test_case # << >>
        THEN [opened EXCEPT !.current_test_case =
                                << ApplyFields(opened.current_test_case[1], line) >>]
        ELSE opened

RECURSIVE ProcessLinesReversed(_, _, _)
\* a loop that reads the lines of a message from the last to the first
ProcessLinesReversed(st, lines, content) ==
    IF Len(lines) = 0 THEN st
    ELSE ProcessLinesReversed(ProcessLine(st, lines[Len(lines)], content),
                              SubSeq(lines, 1, Len(lines) - 1), content)

RECURSIVE ProcessLines(_, _, _)
\* the loop over lines of one message
ProcessLines(st, lines, content) ==
    IF Len(lines) = 0 THEN st
    ELSE ProcessLines(ProcessLine(st, Head(lines), content), Tail(lines), content)

RECURSIVE ProcessMessagesClosePerTurn(_, _)
\* a loop that closes the open test case at the end of every message
ProcessMessagesClosePerTurn(st, messages) ==
    IF Len(messages) = 0 THEN st
    ELSE LET content == GetContent(Head(messages))
             after   == ProcessLines(st, SplitLines(content), content)
         IN  ProcessMessagesClosePerTurn(
                 [test_cases |->
                      IF after.current_test_case # << >>
                      THEN Append(after.test_cases, after.current_test_case[1])
                      ELSE after.test_cases,
                  current_test_case |-> << >>],
                 Tail(messages))

RECURSIVE ProcessMessages(_, _)
\* the loop over messages (lines 126-161)
ProcessMessages(st, messages) ==
    IF Len(messages) = 0 THEN st
    ELSE LET content == GetContent(Head(messages))
         IN  ProcessMessages(ProcessLines(st, SplitLines(content), content),
                             Tail(messages))

\* state before the loop (lines 113-123)
ParserStart == [test_cases |-> << >>, current_test_case |-> << >>]

\* parser state when the loop over messages ends
ParserEnd(messages) == ProcessMessages(ParserStart, messages)

\* a final append that forgets the test for None
FinalCasesUnguarded(st) ==
    Append(st.test_cases,
           IF st.current_test_case # << >> THEN st.current_test_case[1] ELSE None)

\* lines 163-165
FinalCases(st) ==
    IF st.current_test_case # << >>
    THEN Append(st.test_cases, st.current_test_case[1])
    ELSE st.test_cases

\* a parser that takes the plan's objective from an "Objective:" line that
\* opens the transcript
EmergencyPlanObjective(messages) ==
    LET first == IF Len(messages) = 0 THEN << >>
                 ELSE SplitLines(GetContent(messages[1]))[1]
    IN  [objective        |-> IF StartsWith(Strip(first), ObjectivePrefix)
                              THEN FieldValue(first, ObjectivePrefix)
                              ELSE Placeholder,
         scope            |-> Placeholder,
         testing_strategy |-> Placeholder,
         test_environment |-> Placeholder,
         schedule         |-> Placeholder,
         test_cases       |-> FinalCases(ParserEnd(messages)),
         risk_assessment  |-> Placeholder]

emergency_test_plan_processing(messages) ==
    [objective        |-> Placeholder,
     scope            |-> Placeholder,
     testing_strategy |-> Placeholder,
     test_environment |-> Placeholder,
     schedule         |-> Placeholder,
     test_cases       |-> FinalCases(ParserEnd(messages)),
     risk_assessment  |-> Placeholder]

\* ---------------------------------------------- _save_test_plan_to_file
RECURSIVE IntStr(_)
\* str(n) for n >= 0
IntStr(n) ==
    IF n < 10 THEN << DigitChars[n + 1] >>
    ELSE IntStr(n \div 10) \o << DigitChars[(n % 10) + 1] >>

\* repr of a str without quotes or backslashes in it
StrRepr(v) == << "'" >> \o v \o << "'" >>

RECURSIVE StrListRepr(_)
\* the items of a list of str, separated by ", "
StrListRepr(xs) ==
    IF Len(xs) = 0 THEN << >>
    ELSE IF Len(xs) = 1 THEN StrRepr(xs[1])
    ELSE StrRepr(xs[1]) \o << ",", " " >> \o StrListRepr(Tail(xs))

\* "'key': " of a dict item
KeyRepr(k) == << "'", k, "'", ":", " " >>

\* str() of a test case dict, keys in insertion order (lines 137-146)
TestCaseRepr(tc) ==
    << "{" >>
    \o KeyRepr("test_case_number") \o IntStr(tc.test_case_number) \o << ",", " " >>
    \o KeyRepr("title") \o StrRepr(tc.title) \o << ",", " " >>
    \o KeyRepr("objective") \o StrRepr(tc.objective) \o << ",", " " >>
    \o KeyRepr("preconditions") \o StrRepr(tc.preconditions) \o << ",", " " >>
    \o KeyRepr("steps") \o << "[" >> \o StrListRepr(tc.steps) \o << "]", ",", " " >>
    \o KeyRepr("expected_results") \o StrRepr(tc.expected_results) \o << ",", " " >>
    \o KeyRepr("priority") \o StrRepr(tc.priority) \o << ",", " " >>
    \o KeyRepr("status") \o StrRepr(tc.status)
    \o << "}" >>

RECURSIVE TestCaseListRepr(_)
\* the items of a list of test case dicts, separated by ", "
TestCaseListRepr(xs) ==
    IF Len(xs) = 0 THEN << >>
    ELSE IF Len(xs) = 1 THEN TestCaseRepr(xs[1])
    ELSE TestCaseRepr(xs[1]) \o << ",", " " >> \o TestCaseListRepr(Tail(xs))

\* str(test_plan) of the structured dict, keys in insertion order (lines 113-121)
PlanRepr(plan) ==
    << "{" >>
    \o KeyRepr("objective") \o StrRepr(plan.objective) \o << ",", " " >>
    \o KeyRepr("scope") \o StrRepr(plan.scope) \o << ",", " " >>
    \o KeyRepr("testing_strategy") \o StrRepr(plan.testing_strategy) \o << ",", " " >>
    \o KeyRepr("test_environment") \o StrRepr(plan.test_environment) \o << ",", " " >>
    \o KeyRepr("schedule") \o StrRepr(plan.schedule) \o << ",", " " >>
    \o KeyRepr("test_cases") \o << "[" >> \o TestCaseListRepr(plan.test_cases)
    \o << "]", ",", " " >>
    \o KeyRepr("risk_assessment") \o StrRepr(plan.risk_assessment)
    \o << "}" >>

\* the text _save_test_plan_to_file writes for test_plan (lines 174-180)
save_test_plan_to_file(plan) ==
    IF "test_plan" \in DOMAIN plan
    THEN plan.test_plan
    ELSE StartMarker \o << "\n" >> \o PlanRepr(plan) \o << "\n" >> \o EndMarker

\* ------------------------------------------------------------------ inputs
RECURSIVE Concat(_)
\* the concatenation of a sequence of texts
Concat(xs) == IF Len(xs) = 0 THEN << >> ELSE Head(xs) \o Concat(Tail(xs))

\* all sequences over S of length at most n
SeqsUpTo(S, n) == UNION { [1..k -> S] : k \in 0..n }

RECURSIVE SplitTurns(_, _)
\* the runs of q between the turn breaks brk
SplitTurns(q, brk) ==
    IF \A k \in 1..Len(q) : q[k] # brk
    THEN << q >>
    ELSE LET i == CHOOSE i \in 1..Len(q) :
                     q[i] = brk /\ \A j \in 1..(i - 1) : q[j] # brk
         IN  << SubSeq(q, 1, i - 1) >> \o SplitTurns(SubSeq(q, i + 1, Len(q)), brk)

\* Extractor inputs: a turn is a run of these symbols
ExtractSymbols == { "S", "E", "B", " ", ":" }

ExtractText(sym) ==
    CASE sym = "S" -> StartMarker
      [] sym = "E" -> EndMarker
      [] sym = "B" -> StartMarker \o << "b" >> \o EndMarker
      [] OTHER     -> << sym >>

ExtractMessage(run) ==
    [content |-> Concat([k \in 1..Len(run) |-> ExtractText(run[k])])]

ExtractTranscript(q) ==
    LET runs == SplitTurns(q, "|")
    IN  [k \in 1..Len(runs) |-> ExtractMessage(runs[k])]

\* the runs of k symbols and turn breaks
ExtractRuns(k) == [1..k -> ExtractSymbols \cup { "|" }]

\* Parser inputs: a turn is a run of these lines
ParseLines ==
    { << "Test Case", " ", "2" >>,
      << "-", " ", "Test Case", " ", "3", ":", " ", "a", ":", " ", "b" >>,
      << "Objective", ":", " ", "a" >>,
      << " ", "Status", ":", " ", "Status", ":", " ", "a", " " >>,
      << "1", ".", " ", "b" >>,
      << "a" >> }

ParseMessage(run) == [content |-> JoinLines(run)]

ParseTranscript(q) ==
    LET runs == SplitTurns(q, << "|" >>)
    IN  [k \in 1..Len(runs) |-> ParseMessage(runs[k])]

\* the runs of k lines and turn breaks
LineRuns(k) == [1..k -> ParseLines \cup { << "|" >> }]

\* well-formed blocks: heading, Objective, Preconditions, steps, Expected
\* Results, Priority, Status
BlockTitles == { << "Login works" >>, << "Login", ":", " ", "works" >> }

BlockValues == { << "verify login" >>, << "user exists" >> }

BlockSteps == { << "-", " ", "step one" >>, << "-", " ", "step two" >> }

BlockPriorities == { << "High" >>, << "Low" >> }

BlockStatuses == { << "Draft" >>, << "Completed" >> }

BlockIds == { 3, 12 }

Block(n, title, obj, pre, steps, exp, pri, st) ==
    << << "Test Case", " " >> \o IntStr(n) \o << ":", " " >> \o title,
       ObjectivePrefix \o << " " >> \o obj,
       PreconditionsPrefix \o << " " >> \o pre >>
    \o steps
    \o << ExpectedResultsPrefix \o << " " >> \o exp,
          PriorityPrefix \o << " " >> \o pri,
          StatusPrefix \o << " " >> \o st >>

BlockParams ==
    [n : BlockIds, title : BlockTitles, obj : BlockValues, pre : BlockValues,
     steps : SeqsUpTo(BlockSteps, MaxSteps), exp : BlockValues,
     pri : BlockPriorities, st : BlockStatuses]

BlockOf(b) == Block(b.n, b.title, b.obj, b.pre, b.steps, b.exp, b.pri, b.st)

BlockInputs == { << ParseMessage(BlockOf(b)) >> : b \in BlockParams }

\* field blocks: a heading followed by field lines
FieldPrefixes ==
    { ObjectivePrefix, PreconditionsPrefix, ExpectedResultsPrefix,
      PriorityPrefix, StatusPrefix }

FieldLines == { p \o << " " >> \o v : p \in FieldPrefixes, v \in { << "a" >>, << "b" >> } }

\* one turn: a heading followed by the field lines q
FieldTranscript(q) ==
    << ParseMessage(<< << "Test Case", " ", "1", ":", " ", "a" >> >> \o q) >>

\* ------------------------------------------------------------------- state
VARIABLES
    messages,   \* groupchat.messages, the transcript
    pc,         \* position in the operation under way
    test_plan,  \* the local test_plan: the record extracted or parsed
    file,       \* the output file: << >> before any write, << text >> after
    returned,   \* << >> until the operation returns, then << value >>
    reparsed,   \* the parser's record for the written text read back
    error       \* what generate_test_plan caught: "none", "participant", "writer"

vars == << messages, pc, test_plan, file, returned, reparsed, error >>

\* ------------------------------------------------- generate_test_plan
\* GroupChat(max_round=6): the chat ends when the transcript holds max_round
\* messages
max_round == 6

\* test_plan_prompt: it names a field prefix and ends by quoting both markers
PromptText ==
    JoinLines(<< << "Objective", ":", " ", "[Purpose of the test case]" >>,
                 << "START WITH '", "TEST PLAN", ":", "' AND END WITH '",
                    "END OF", " ", "TEST PLAN", "'" >> >>)

\* a turn that holds a delimited plan
PlanText ==
    JoinLines(<< StartMarker,
                 << "Test Case", " ", "1", ":", " ", "a" >>,
                 << "Objective", ":", " ", "a" >>,
                 EndMarker >>)

\* a turn that holds a test case and no marker
CaseText ==
    JoinLines(<< << "Test Case", " ", "2", ":", " ", "b" >>,
                 << "Objective", ":", " ", "b" >>,
                 << "-", " ", "a" >> >>)

\* a turn that holds neither
ReviewText == << "a" >>

\* what a participant may say in a turn
ChatTexts == { PromptText, PlanText, CaseText, ReviewText }

\* GroupChat(agents=[...]): the roster, in the order of the list
Roster == << "test_plan_creator", "user_proxy", "manual_qa_agent", "api_qa_agent" >>

\* position of an agent in the roster
RosterIndex(name) == CHOOSE i \in 1..Len(Roster) : Roster[i] = name

\* self.agents["user_proxy"].initiate_chat(manager, ...): the first message
\* of the chat is the initiator's
FirstSpeaker == "user_proxy"

\* a selection that gives the turn to the last speaker again
NextAgentSame(name) == name

\* speaker_selection_method="round_robin": the agent after name in the
\* roster, the first agent after the last
NextAgent(name) == Roster[(RosterIndex(name) % Len(Roster)) + 1]

\* the speaker of the next turn
NextSpeaker(msgs) ==
    IF Len(msgs) = 0 THEN FirstSpeaker ELSE NextAgent(msgs[Len(msgs)].name)

Init ==
    /\ messages = << >>
    /\ pc = "chat"
    /\ test_plan = None
    /\ file = << >>
    /\ returned = << >>
    /\ reparsed = None
    /\ error = "none"

\* a participant's turn is appended to groupchat.messages
ChatTurn ==
    /\ pc = "chat"
    /\ Len(messages) < max_round
    /\ \E t \in ChatTexts :
           messages' = Append(messages, [name |-> NextSpeaker(messages), content |-> t])
    /\ UNCHANGED << pc, test_plan, file, returned, reparsed, error >>

\* a participant's turn raises: initiate_chat raises into the except clause
ChatRaises ==
    /\ pc = "chat"
    /\ Len(messages) < max_round
    /\ pc' = "except"
    /\ error' = "participant"
    /\ UNCHANGED << messages, test_plan, file, returned, reparsed >>

\* a chat that also ends as soon as a turn holds a delimited plan
ChatCompletesOnPlan ==
    /\ pc = "chat"
    /\ \/ Len(messages) = max_round
       \/ Len(messages) >= 1 /\ GetContent(messages[Len(messages)]) = PlanText
    /\ pc' = "try"
    /\ UNCHANGED << messages, test_plan, file, returned, reparsed, error >>

\* the round budget is used up: initiate_chat returns
ChatCompletes ==
    /\ pc = "chat"
    /\ Len(messages) = max_round
    /\ pc' = "try"
    /\ UNCHANGED << messages, test_plan, file, returned, reparsed, error >>

\* lines 71-76: extract, save, return
TryReturn ==
    /\ pc = "try"
    /\ test_plan' = process_test_plan_results(messages)
    /\ file' = << save_test_plan_to_file(test_plan') >>
    /\ returned' = << test_plan' >>
    /\ pc' = "returned"
    /\ UNCHANGED << messages, reparsed, error >>

\* lines 71-74 when the writer raises: the file is untouched or left empty
TrySaveRaises ==
    /\ pc = "try"
    /\ test_plan' = process_test_plan_results(messages)
    /\ file' \in { file, << << >> >> }
    /\ pc' = "except"
    /\ error' = "writer"
    /\ UNCHANGED << messages, returned, reparsed >>

\* a handler that salvages the transcript without its last turn
ExceptReturnDropsTurn ==
    /\ pc = "except"
    /\ test_plan' = emergency_test_plan_processing(
                        SubSeq(messages, 1, Len(messages) - 1))
    /\ file' = << save_test_plan_to_file(test_plan') >>
    /\ returned' = << test_plan' >>
    /\ pc' = "returned"
    /\ UNCHANGED << messages, reparsed, error >>

\* lines 77-85: salvage, save, return
ExceptReturn ==
    /\ pc = "except"
    /\ test_plan' = emergency_test_plan_processing(messages)
    /\ file' = << save_test_plan_to_file(test_plan') >>
    /\ returned' = << test_plan' >>
    /\ pc' = "returned"
    /\ UNCHANGED << messages, reparsed, error >>

\* a handler that catches the error of its own write and returns the record
ExceptSaveSwallowed ==
    /\ pc = "except"
    /\ test_plan' = emergency_test_plan_processing(messages)
    /\ file' \in { file, << << >> >> }
    /\ returned' = << test_plan' >>
    /\ pc' = "returned"
    /\ UNCHANGED << messages, reparsed, error >>

\* lines 77-83 when the writer raises: the error leaves generate_test_plan
ExceptSaveRaises ==
    /\ pc = "except"
    /\ test_plan' = emergency_test_plan_processing(messages)
    /\ file' \in { file, << << >> >> }
    /\ pc' = "raised"
    /\ UNCHANGED << messages, returned, reparsed, error >>

Next ==
    \/ ChatTurn
    \/ ChatRaises
    \/ ChatCompletes
    \/ TryReturn
    \/ TrySaveRaises
    \/ ExceptReturn
    \/ ExceptSaveRaises

Spec == Init /\ [][Next]_vars

\* every turn resolves, by returning or by raising, and initiate_chat returns
\* once the budget is used up: the chat is never left waiting
SpecLive == Spec /\ WF_vars(ChatTurn \/ ChatRaises \/ ChatCompletes)

\* ------------------------------------------ extractor applied to an input
InitExtract ==
    /\ \/ messages = << >>
       \/ \E k \in 0..MaxExtractLen : \E q \in ExtractRuns(k) :
              messages = ExtractTranscript(q)
    /\ pc = "extract"
    /\ test_plan = None
    /\ file = << >>
    /\ returned = << >>
    /\ reparsed = None
    /\ error = "none"

ExtractCall ==
    /\ pc = "extract"
    /\ test_plan' = extract_test_plan_content(messages)
    /\ pc' = "extracted"
    /\ UNCHANGED << messages, file, returned, reparsed, error >>

NextExtract == ExtractCall

SpecExtract == InitExtract /\ [][NextExtract]_vars

\* --------------------------- parser and writer applied to an input
InitParse ==
    /\ \/ messages = << >>
       \/ \E k \in 0..MaxParseLen : \E q \in LineRuns(k) :
              messages = ParseTranscript(q)
       \/ messages \in BlockInputs
       \/ \E k \in 0..MaxFieldLines : \E q \in [1..k -> FieldLines] :
              messages = FieldTranscript(q)
    /\ pc = "parse"
    /\ test_plan = None
    /\ file = << >>
    /\ returned = << >>
    /\ reparsed = None
    /\ error = "none"

EmergencyCall ==
    /\ pc = "parse"
    /\ test_plan' = emergency_test_plan_processing(messages)
    /\ pc' = "parsed"
    /\ UNCHANGED << messages, file, returned, reparsed, error >>

SaveCall ==
    /\ pc = "parsed"
    /\ file' = << save_test_plan_to_file(test_plan) >>
    /\ pc' = "saved"
    /\ UNCHANGED << messages, test_plan, returned, reparsed, error >>

ReparseCall ==
    /\ pc = "saved"
    /\ reparsed' = emergency_test_plan_processing(<< [content |-> file[1]] >>)
    /\ pc' = "reparsed"
    /\ UNCHANGED << messages, test_plan, file, returned, error >>

NextParse == EmergencyCall \/ SaveCall \/ ReparseCall

SpecParse == InitParse /\ [][NextParse]_vars

\* the same operations applied to the well-formed blocks only
InitBlock ==
    /\ messages \in BlockInputs
    /\ pc = "parse"
    /\ test_plan = None
    /\ file = << >>
    /\ returned = << >>
    /\ reparsed = None
    /\ error = "none"

SpecBlock == InitBlock /\ [][NextParse]_vars

\* ------------------------------------------------- extractor properties
Content(k) == GetContent(messages[k])

\* the start marker occurs in c and the end marker occurs later in c
WellOrdered(c) ==
    \E i, j \in 0..Len(c) :
        OccursAt(c, StartMarker, i) /\ OccursAt(c, EndMarker, j) /\ i < j

BothMarkers(c) == Contains(c, StartMarker) /\ Contains(c, EndMarker)

\* c from the first start marker (inclusive) to the first end marker
\* (exclusive), trimmed
MarkedBlock(c) == Strip(Slice(c, Find(c, StartMarker), Find(c, EndMarker)))

\* C1: when exactly one turn holds the start marker and, later in its text,
\* the end marker, the extractor returns that turn's text from the first
\* start marker to the first end marker, trimmed.
C1_ExactBlock ==
    pc = "extracted" =>
        \A k \in 1..Len(messages) :
            (/\ WellOrdered(Content(k))
             /\ \A j \in 1..Len(messages) : j # k => ~WellOrdered(Content(j)))
            => test_plan = [test_plan |-> MarkedBlock(Content(k))]

\* C2: when no turn holds the start marker followed later by the end marker
\* (the end marker comes first, or a marker is missing), the extractor
\* returns the soft-miss sentinel.
C2_SoftMiss ==
    (pc = "extracted" /\ \A k \in 1..Len(messages) : ~WellOrdered(Content(k)))
    => test_plan = [test_plan |-> NoPlanText]

\* C5: the extractor returns the block of the latest turn that holds both
\* markers; later turns without both markers do not stop the scan.
C5_LatestBlock ==
    pc = "extracted" =>
        \A k \in 1..Len(messages) :
            (/\ BothMarkers(Content(k))
             /\ \A j \in (k + 1)..Len(messages) : ~BothMarkers(Content(j)))
            => test_plan = [test_plan |-> MarkedBlock(Content(k))]

\* C5 witness: two turns hold complete blocks of different content, a still
\* later turn holds only the start marker, and the later block is returned.
C5_Witness ==
    /\ pc = "extracted"
    /\ \E k1, k2, k3 \in 1..Len(messages) :
           /\ k1 < k2 /\ k2 < k3
           /\ WellOrdered(Content(k1)) /\ WellOrdered(Content(k2))
           /\ Find(Content(k1), StartMarker) < Find(Content(k1), EndMarker)
           /\ Find(Content(k2), StartMarker) < Find(Content(k2), EndMarker)
           /\ MarkedBlock(Content(k1)) # MarkedBlock(Content(k2))
           /\ Contains(Content(k3), StartMarker)
           /\ ~Contains(Content(k3), EndMarker)
           /\ test_plan = [test_plan |-> MarkedBlock(Content(k2))]

\* ---------------------------------------------------- parser properties
\* the parser has run on messages and test_plan holds its record
Parsed == pc = "parsed"

\* line is a test-case heading of a turn with text content
QualifyingHeading(line, content) ==
    TestCaseMatch(line) /\ Contains(content, ObjectivePrefix)

RECURSIVE FlatLines(_)
\* every line of every turn in transcript order, with whether it is a
\* qualifying heading
FlatLines(msgs) ==
    IF Len(msgs) = 0 THEN << >>
    ELSE LET content == GetContent(Head(msgs))
             lines   == SplitLines(content)
         IN  [i \in 1..Len(lines) |->
                 [line |-> lines[i], heading |-> QualifyingHeading(lines[i], content)]]
             \o FlatLines(Tail(msgs))

\* positions of the qualifying headings in fl
HeadingPositions(fl) == { n \in 1..Len(fl) : fl[n].heading }

\* position of the c-th qualifying heading
HeadingPosition(fl, c) ==
    CHOOSE n \in HeadingPositions(fl) :
        Cardinality({ m \in HeadingPositions(fl) : m <= n }) = c

\* positions of the lines read while the c-th case is open
CaseSegment(fl, c) ==
    LET h == HeadingPosition(fl, c)
    IN  { n \in h..Len(fl) : \A m \in HeadingPositions(fl) : m > h => n < m }

\* C6: a well-formed block in one turn yields exactly one test case that
\* carries the block's identifier, title, steps and field values.
C6_WellFormedBlock ==
    Parsed =>
        \A b \in BlockParams :
            messages = << ParseMessage(BlockOf(b)) >> =>
                test_plan.test_cases =
                    << [test_case_number |-> b.n,
                        title            |-> b.title,
                        objective        |-> b.obj,
                        preconditions    |-> b.pre,
                        steps            |-> b.steps,
                        expected_results |-> b.exp,
                        priority         |-> b.pri,
                        status           |-> b.st] >>

MetadataKeys ==
    { "objective", "scope", "testing_strategy", "test_environment", "schedule",
      "risk_assessment" }

NoQualifyingHeading == HeadingPositions(FlatLines(messages)) = { }

TurnLines(k) == SplitLines(Content(k))

\* the lines of turn k that match "Test Case <digits>" while the text of
\* turn k never contains "Objective:", as pairs << k, i >>
StrayHeadingsOf(k) ==
    IF Contains(Content(k), ObjectivePrefix)
    THEN { }
    ELSE LET lines == TurnLines(k)
         IN  { << k, i >> : i \in { j \in 1..Len(lines) : TestCaseMatch(lines[j]) } }

StrayHeadings == UNION { StrayHeadingsOf(k) : k \in 1..Len(messages) }

\* the transcript without line i of turn k
WithoutLine(k, i) ==
    LET lines == TurnLines(k)
        rest  == SubSeq(lines, 1, i - 1) \o SubSeq(lines, i + 1, Len(lines))
    IN  [messages EXCEPT ![k] = [content |-> JoinLines(rest)]]

\* the trimmed line starts with a field prefix, a dash or "<digits>."
FieldOrStepLine(line) ==
    \/ \E p \in FieldPrefixes : StartsWith(Strip(line), p)
    \/ StartsWith(Strip(line), << "-" >>)
    \/ NumberedMatch(Strip(line))

\* C8 as stated: with a "Test Case <digits>" line in a turn without
\* "Objective:", the test cases and the open case are those of the
\* transcript without that line.
C8_AsIfAbsent ==
    Parsed =>
        \A ki \in StrayHeadings :
            LET without == ParserEnd(WithoutLine(ki[1], ki[2]))
            IN  /\ test_plan.test_cases = FinalCases(without)
                /\ ParserEnd(messages) = without

\* identifier and title of each test case of cases
Headings(cases) ==
    [n \in 1..Len(cases) |->
        << cases[n].test_case_number, cases[n].title >>]

\* C8 amended: such a line opens no test case and closes none: the
\* identifiers and titles of the test cases, their order, and whether a case
\* is open are those of the transcript without the line; the line is still
\* read as a field or step line of the open case, and when it is neither,
\* the whole result is that of the transcript without it.
C8_NoOpenNoClose ==
    Parsed =>
        \A ki \in StrayHeadings :
            LET with    == ParserEnd(messages)
                without == ParserEnd(WithoutLine(ki[1], ki[2]))
            IN  /\ Headings(test_plan.test_cases) = Headings(FinalCases(without))
                /\ Headings(with.test_cases) = Headings(without.test_cases)
                /\ (with.current_test_case = << >>) = (without.current_test_case = << >>)
                /\ ~FieldOrStepLine(TurnLines(ki[1])[ki[2]]) =>
                       /\ test_plan.test_cases = FinalCases(without)
                       /\ with = without

\* C8 witness: a case opened in an earlier turn is open when a later turn
\* without "Objective:" brings a "Test Case <digits>" line, and the parser
\* has returned that one case only.
C8_Witness ==
    /\ pc = "parsed"
    /\ Len(test_plan.test_cases) = 1
    /\ \E ki \in StrayHeadings :
           /\ ki[1] > 1
           /\ \E n \in 1..Len(FlatLines(SubSeq(messages, 1, ki[1] - 1))) :
                  FlatLines(SubSeq(messages, 1, ki[1] - 1))[n].heading

\* the scalar field that a prefix writes
FieldOf(tc, p) ==
    CASE p = ObjectivePrefix       -> tc.objective
      [] p = PreconditionsPrefix   -> tc.preconditions
      [] p = ExpectedResultsPrefix -> tc.expected_results
      [] p = PriorityPrefix        -> tc.priority
      [] p = StatusPrefix          -> tc.status

\* positions, within the lines read while case c is open, of the lines that
\* start with prefix p
PrefixLines(fl, c, p) ==
    { n \in CaseSegment(fl, c) : StartsWith(Strip(fl[n].line), p) }

Max(S) == CHOOSE x \in S : \A y \in S : y <= x

\* C9: a field of a test case holds the value of the last line with that
\* field's prefix read while the case was open, and nothing of the earlier
\* ones.
C9_LastWriteWins ==
    Parsed =>
        LET fl == FlatLines(messages)
        IN  /\ Len(test_plan.test_cases) = Cardinality(HeadingPositions(fl))
            /\ \A c \in 1..Len(test_plan.test_cases) : \A p \in FieldPrefixes :
                   PrefixLines(fl, c, p) # { } =>
                       FieldOf(test_plan.test_cases[c], p) =
                           FieldValue(fl[Max(PrefixLines(fl, c, p))].line, p)

\* C9 witness: two lines with the same prefix and different values were read
\* for one case, and the field holds the later value.
C9_Witness ==
    /\ pc = "parsed"
    /\ LET fl == FlatLines(messages)
       IN  \E c \in 1..Len(test_plan.test_cases) : \E p \in FieldPrefixes :
               \E m, n \in PrefixLines(fl, c, p) :
                   /\ m < n
                   /\ n = Max(PrefixLines(fl, c, p))
                   /\ FieldValue(fl[m].line, p) # FieldValue(fl[n].line, p)
                   /\ FieldOf(test_plan.test_cases[c], p) = FieldValue(fl[n].line, p)

\* C10: the test cases parsed back from the text the writer wrote for a
\* structured record are the test cases of that record.
C10_RoundTrip ==
    pc = "reparsed" =>
        { reparsed.test_cases[n] : n \in 1..Len(reparsed.test_cases) } =
        { test_plan.test_cases[n] : n \in 1..Len(test_plan.test_cases) }

\* ------------------------------------------------ pipeline properties
\* no turn holds both markers: the extractor's soft miss
SoftMiss == \A k \in 1..Len(messages) : ~BothMarkers(Content(k))

C4_SalvageOnParticipantError ==
    (pc \in { "returned", "raised" } /\ error = "participant") =>
        /\ test_plan = emergency_test_plan_processing(messages)
        /\ pc = "returned" =>
              /\ returned = << test_plan >>
              /\ file = << StartMarker \o << "\n" >> \o PlanRepr(test_plan)
                           \o << "\n" >> \o EndMarker >>

\* C4 witness: a turn raised after turns had been produced, and the record
\* returned holds a test case of each of two of those turns.
C4_Witness ==
    /\ pc = "returned"
    /\ error = "participant"
    /\ Len(messages) >= 2
    /\ Len(messages) < max_round
    /\ Content(Len(messages)) = CaseText
    /\ Len(returned[1].test_cases) >= 2

\* ------------------------------------------------ orchestration properties
\* C11: the speakers follow the roster in strict rotation: every speaker is
\* of the roster, the speaker of a turn is the roster successor of the
\* speaker before (the first agent follows the last), any four consecutive
\* turns hold each participant exactly once, and a step of the chat adds one
\* turn and changes no earlier one.
C11_RoundRobin ==
    /\ [](\A k \in 1..Len(messages) :
             /\ \E i \in 1..Len(Roster) : messages[k].name = Roster[i]
             /\ k > 1 =>
                   RosterIndex(messages[k].name) =
                       (RosterIndex(messages[k - 1].name) % Len(Roster)) + 1
             /\ k + Len(Roster) - 1 <= Len(messages) =>
                   \A i \in 1..Len(Roster) :
                       Cardinality({ j \in k..(k + Len(Roster) - 1) :
                                       messages[j].name = Roster[i] }) = 1)
    /\ [][/\ Len(messages') <= Len(messages) + 1
          /\ SubSeq(messages', 1, Len(messages)) = messages]_vars

\* C11 witness: the chat has gone once round the roster and past its end:
\* the last agent of the roster has spoken and the first one after it.
C11_Witness ==
    /\ Len(messages) = max_round
    /\ \E k \in 1..(Len(messages) - 1) :
           /\ messages[k].name = Roster[Len(Roster)]
           /\ messages[k + 1].name = Roster[1]

\* the orchestration states: Running while the chat goes on, Completed when
\* initiate_chat has returned, Failed when a participant's turn has raised
Running == pc = "chat"

ChatFailed == pc # "chat" /\ error = "participant"

ChatCompleted == pc # "chat" /\ error # "participant"

HeadingLine(fl, c) == fl[HeadingPosition(fl, c)].line

\* the text of a heading line that follows its "Test Case <digits>" match
AfterMatch(line) ==
    LET i == CHOOSE i \in 0..Len(line) :
                 /\ TestCaseAt(line, i)
                 /\ \A j \in 0..(i - 1) : ~TestCaseAt(line, j)
    IN  SliceFrom(line, i + 2 + Len(DigitRun(line, i + 3)))

\* the title by the first colon after the match: the trimmed text that
\* follows it, and "Test Case <digits>" for a line without a colon
TitleAfterFirstColon(line) ==
    IF Contains(line, << ":" >>)
    THEN Strip(SliceFrom(AfterMatch(line), Find(AfterMatch(line), << ":" >>) + 1))
    ELSE << "Test Case", " " >> \o MatchGroup1(line)

\* C13: the title of every test case is the trimmed text after the first
\* colon that follows the "Test Case <digits>" match of its heading line, and
\* "Test Case <id>" when the heading line has no colon.
C13_TitleAfterFirstColon ==
    Parsed =>
        LET fl == FlatLines(messages)
        IN  \A c \in 1..Len(test_plan.test_cases) :
                c <= Cardinality(HeadingPositions(fl)) =>
                    test_plan.test_cases[c].title = TitleAfterFirstColon(HeadingLine(fl, c))

\* the trimmed line is a step line: it starts with "-" or with "<digits>."
IsStepLine(line) ==
    LET s == Strip(line)
    IN  /\ Len(s) >= 1
        /\ \/ s[1] = "-"
           \/ \E n \in 1..(Len(s) - 1) :
                  /\ \A k \in 1..n : s[k] \in Digits
                  /\ s[n + 1] = "."

Min(S) == CHOOSE x \in S : \A y \in S : x <= y

RECURSIVE StepsAt(_, _)
\* the trimmed step lines at the positions P of fl, in transcript order
StepsAt(fl, P) ==
    IF P = { } THEN << >>
    ELSE LET n == Min(P)
         IN  (IF IsStepLine(fl[n].line) THEN << Strip(fl[n].line) >> ELSE << >>)
             \o StepsAt(fl, P \ { n })

\* the value of the default case for the field that prefix p writes
DefaultOf(p) ==
    CASE p = PriorityPrefix -> << "Medium" >>
      [] p = StatusPrefix   -> << "Draft" >>
      [] OTHER              -> << >>

\* positions of the lines read after the heading while case c is open
BodySegment(fl, c) == CaseSegment(fl, c) \ { HeadingPosition(fl, c) }

\* C14: a heading line gives its case the identifier and the title only: the
\* steps of a case are the step lines read after its heading, and each
\* field is written by the prefix lines read after its heading, or keeps
\* its default when there is none.
C14_HeadingOnly ==
    Parsed =>
        LET fl == FlatLines(messages)
        IN  \A c \in 1..Len(test_plan.test_cases) :
                c <= Cardinality(HeadingPositions(fl)) =>
                    LET tc   == test_plan.test_cases[c]
                        body == BodySegment(fl, c)
                    IN  /\ tc.steps = StepsAt(fl, body)
                        /\ \A p \in FieldPrefixes :
                               LET written == { n \in body : StartsWith(Strip(fl[n].line), p) }
                               IN  FieldOf(tc, p) =
                                       IF written = { } THEN DefaultOf(p)
                                       ELSE FieldValue(fl[Max(written)].line, p)

\* the whole trimmed remainder of a line after its leading prefix p
Remainder(line, p) == Strip(SliceFrom(Strip(line), Len(p)))

\* C15: a field written by a prefix line holds the whole trimmed remainder
\* of that line after its leading prefix, also when the remainder holds the
\* prefix again.
C15_WholeRemainder ==
    Parsed =>
        LET fl == FlatLines(messages)
        IN  \A c \in 1..Len(test_plan.test_cases) :
                c <= Cardinality(HeadingPositions(fl)) =>
                    \A p \in FieldPrefixes :
                        PrefixLines(fl, c, p) # { } =>
                            FieldOf(test_plan.test_cases[c], p) =
                                Remainder(fl[Max(PrefixLines(fl, c, p))].line, p)

\* C16: no two test cases of the returned record carry the same identifier.
C16_UniqueIds ==
    Parsed =>
        \A c, d \in 1..Len(test_plan.test_cases) :
            test_plan.test_cases[c].test_case_number =
                test_plan.test_cases[d].test_case_number => c = d

Priorities == { << "Low" >>, << "Medium" >>, << "High" >> }

Statuses == { << "Draft" >>, << "Ready for Execution" >>, << "Completed" >> }

\* C17: every test case of the returned record has a priority among Low,
\* Medium, High and a status among Draft, Ready for Execution, Completed.
C17_EnumeratedValues ==
    Parsed =>
        \A c \in 1..Len(test_plan.test_cases) :
            /\ test_plan.test_cases[c].priority \in Priorities
            /\ test_plan.test_cases[c].status \in Statuses

RECURSIVE LinesBefore(_)
\* the number of lines of the turns before turn k
LinesBefore(k) ==
    IF k <= 1 THEN 0 ELSE LinesBefore(k - 1) + Len(TurnLines(k - 1))

\* the turn that holds line n of the flattened transcript
TurnOf(n) ==
    CHOOSE k \in 1..Len(messages) :
        LinesBefore(k) < n /\ n <= LinesBefore(k) + Len(TurnLines(k))

\* positions of the lines read while case c is open in a turn after the one
\* of its heading
LaterTurnLines(fl, c) ==
    { n \in CaseSegment(fl, c) : TurnOf(n) > TurnOf(HeadingPosition(fl, c)) }

\* C19: a test case stays open over turn boundaries: a step line of a later
\* turn read before the next qualifying heading is in its steps, at the
\* place of its transcript order, and the last line with a field prefix
\* gives the field its value also when it lies in a later turn.
C19_OpenAcrossTurns ==
    Parsed =>
        LET fl == FlatLines(messages)
        IN  \A c \in 1..Len(test_plan.test_cases) :
                c <= Cardinality(HeadingPositions(fl)) =>
                    \A n \in LaterTurnLines(fl, c) :
                        LET tc  == test_plan.test_cases[c]
                            seg == CaseSegment(fl, c)
                            idx == Cardinality({ m \in seg : m <= n /\ IsStepLine(fl[m].line) })
                        IN  /\ IsStepLine(fl[n].line) =>
                                /\ idx <= Len(tc.steps)
                                /\ tc.steps[idx] = Strip(fl[n].line)
                            /\ \A p \in FieldPrefixes :
                                   n = Max(PrefixLines(fl, c, p) \cup { 0 }) =>
                                       FieldOf(tc, p) = FieldValue(fl[n].line, p)

\* C19 witness: a test case opened in one turn holds a step that was read
\* in a later turn without "Objective:" and without a heading.
C19_Witness ==
    /\ pc = "parsed"
    /\ LET fl == FlatLines(messages)
       IN  \E c \in 1..Len(test_plan.test_cases) :
               /\ c <= Cardinality(HeadingPositions(fl))
               /\ \E n \in LaterTurnLines(fl, c) :
                      /\ IsStepLine(fl[n].line)
                      /\ ~Contains(Content(TurnOf(n)), ObjectivePrefix)
                      /\ \E i \in 1..Len(test_plan.test_cases[c].steps) :
                             test_plan.test_cases[c].steps[i] = Strip(fl[n].line)

\* C20: the test cases are the qualifying heading lines, one for one and in
\* transcript order: the c-th test case has the identifier and the title
\* read from the c-th qualifying heading line.
C20_OnePerHeading ==
    Parsed =>
        LET fl == FlatLines(messages)
        IN  Headings(test_plan.test_cases) =
                [c \in 1..Cardinality(HeadingPositions(fl)) |->
                    << ToInt(MatchGroup1(HeadingLine(fl, c))),
                       HeadingTitle(HeadingLine(fl, c)) >>]

\* C20 witness: three headings, the first two closed by the heading that
\* follows and the third one by the end of the transcript, gave three test
\* cases in heading order, which is not the order of the identifiers.
C20_Witness ==
    /\ pc = "parsed"
    /\ Cardinality(HeadingPositions(FlatLines(messages))) = 3
    /\ Len(test_plan.test_cases) = 3
    /\ test_plan.test_cases[1].test_case_number = 3
    /\ test_plan.test_cases[2].test_case_number = 2
    /\ test_plan.test_cases[3].test_case_number = 3

\* the pairs << k, i >> of the lines that start with "Objective:" and are
\* read before any test case is opened
ObjectiveLinesBeforeCases ==
    LET fl == FlatLines(messages)
    IN  UNION { LET lines == TurnLines(k)
                IN  { << k, i >> : i \in { j \in 1..Len(lines) :
                          /\ StartsWith(Strip(lines[j]), ObjectivePrefix)
                          /\ \A h \in HeadingPositions(fl) : h > LinesBefore(k) + j } } :
                k \in 1..Len(messages) }

\* C21: the six plan-level metadata fields of the parser's record are the
\* placeholder for every transcript, and after an "Objective:" line read
\* while no test case is open the parser still holds no test case and no
\* open case.
C21_MetadataPlaceholders ==
    Parsed =>
        /\ \A key \in MetadataKeys : test_plan[key] = Placeholder
        /\ \A ki \in ObjectiveLinesBeforeCases :
               ProcessLines(ParserEnd(SubSeq(messages, 1, ki[1] - 1)),
                            SubSeq(TurnLines(ki[1]), 1, ki[2]),
                            Content(ki[1])) = ParserStart

\* C21 witness: an "Objective:" line was read before the first heading, a
\* test case was opened after it, and the plan's objective is the
\* placeholder while the test case has no objective.
C21_Witness ==
    /\ pc = "parsed"
    /\ ObjectiveLinesBeforeCases # { }
    /\ Len(test_plan.test_cases) >= 1
    /\ test_plan.test_cases[1].objective = << >>
    /\ test_plan.objective = Placeholder

\* the writer raised in the try block
WriterFailed == error = "writer"

\* C22: the writer raises in the try block only after the fast path has
\* produced its record, and control goes to the handler; the handler replaces
\* that record by the fallback parser's record of the whole transcript and
\* writes once more; when generate_test_plan then returns, it returns the
\* structured record and the file holds its rendering; when the second
\* write raises, nothing is returned and the run ends with the error.
C22_RetryStructured ==
    /\ [][(WriterFailed' /\ ~WriterFailed) =>
              /\ pc = "try"
              /\ pc' = "except"
              /\ test_plan' = extract_test_plan_content(messages)
              /\ messages' = messages
              /\ returned' = << >>]_vars
    /\ []((WriterFailed /\ pc \in { "returned", "raised" }) =>
              /\ test_plan = emergency_test_plan_processing(messages)
              /\ "test_cases" \in DOMAIN test_plan
              /\ "test_plan" \notin DOMAIN test_plan)
    /\ []((WriterFailed /\ pc = "returned") =>
              /\ returned = << test_plan >>
              /\ file = << StartMarker \o << "\n" >> \o PlanRepr(test_plan)
                           \o << "\n" >> \o EndMarker >>)
    /\ [](pc = "raised" => returned = << >>)
    /\ [][pc = "except" => pc' \in { "except", "returned", "raised" }]_vars
    /\ [][pc = "raised" => UNCHANGED vars]_vars

\* C22 witness: the fast path had extracted a raw block, the writer raised,
\* and generate_test_plan returned the structured record with a test case.
C22_Witness ==
    /\ pc = "returned"
    /\ WriterFailed
    /\ \E k \in 1..Len(messages) : Content(k) = PlanText
    /\ returned # << >>
    /\ "test_cases" \in DOMAIN returned[1]
    /\ Len(returned[1].test_cases) >= 1

====
